---- MODULE Spec2Model ----
(***************************************************************************)
(* A model of nerve's serving gateway, src/nerve/cli/serve.py: the mode    *)
(* decision and route table built by _serve, the three protocol adapters,  *)
(* and the request handlers of the REST application.                       *)
(*                                                                         *)
(* Python dicts are insertion ordered: a dict is a sequence of <<key,      *)
(* value>> pairs with distinct keys.  Python's None is the value None.     *)
(* A string the code inspects character by character (the `full` query     *)
(* parameter) is a sequence of one-character strings.                      *)
(***************************************************************************)
EXTENDS Naturals, Sequences, FiniteSets, TLC

VARIABLES
    args,          \* the command line flags: mcp, mcp_sse, serve_tools, tools_only
    disk,          \* what input_path holds: a valid configuration or not, and the tools
    phase,         \* where _serve is
    config,        \* the loaded Configuration
    inputs,        \* config.get_inputs(): the declared inputs, shared by all requests
    serve_tools,   \* _serve's local, after the mode decision
    tools_only,    \* _serve's local, after the mode decision
    runtime,       \* _serve's local: <<>> (None) or <<the Runtime built>>
    server,        \* <<>> or <<the arguments create_server was given>>
    routes,        \* the routes of the FastAPI application, in registration order
    started,       \* the protocol adapters started so far, in order
    call           \* per HTTP request: the handler's position and locals

vars == <<args, disk, phase, config, inputs, serve_tools, tools_only, runtime,
          server, routes, started, call>>

---------------------------------------------------------------------------
(* Bounds of the model. *)

\* declared inputs of a configuration, in the single-request specification
MaxInputs == 2
\* tools the runtime registers, in the startup specification
MaxTools == 2
\* HTTP requests in flight together, in the concurrent specification
MaxReq == 2

---------------------------------------------------------------------------
(* Values. *)

None == "<None>"

\* Python truthiness of an optional string
Truthy(v) == v \notin {None, ""}

(* dict operations *)
DictKeys(d) == {d[i][1] : i \in 1..Len(d)}

DictHas(d, k) == \E i \in 1..Len(d) : d[i][1] = k

\* d.get(k, default)
DictGet(d, k, default) ==
    IF DictHas(d, k) THEN d[CHOOSE i \in 1..Len(d) : d[i][1] = k][2] ELSE default

\* d[k] = v: an existing key keeps its position, a new key is appended
DictSet(d, k, v) ==
    IF DictHas(d, k)
    THEN [i \in 1..Len(d) |-> IF d[i][1] = k THEN <<k, v>> ELSE d[i]]
    ELSE Append(d, <<k, v>>)

\* d.copy(): a new dict with the same items
DictCopy(d) == d

\* the sequences over S of length at most n
RECURSIVE SeqsUpTo(_, _)
SeqsUpTo(S, n) ==
    IF n = 0 THEN {<<>>}
    ELSE LET shorter == SeqsUpTo(S, n - 1)
         IN shorter \cup {Append(s, x) : s \in shorter, x \in S}

---------------------------------------------------------------------------
(* The configurations, tools and flags a run may be given. *)

InputNames == {"a", "b", "c"}
Defaults == {None, "d"}

HasDistinctKeys(d) == \A i, j \in 1..Len(d) : d[i][1] = d[j][1] => i = j

\* every inputs mapping of at most MaxInputs declarations: a name with a default
\* value, or with None when the input is required
DeclaredInputs ==
    {d \in SeqsUpTo(InputNames \X Defaults, MaxInputs) : HasDistinctKeys(d)}

\* the inputs mappings of the startup and the concurrent specifications
FewDeclaredInputs == {<< <<"a", None>>, <<"b", "d">> >>, << <<"a", "d">> >>}

ToolUniverse == {[name |-> "t1", doc |-> "first tool"], [name |-> "t2", doc |-> None]}

NoTool == [name |-> None, doc |-> None]

Flags == [mcp : BOOLEAN, mcp_sse : BOOLEAN, serve_tools : BOOLEAN, tools_only : BOOLEAN]

Configurations(prompts, directives, declared) ==
    [description : {"an agent"}, system_prompt : prompts, agent : directives,
     task : directives, inputs : declared]

NoConfig ==
    [description |-> None, system_prompt |-> None, agent |-> None, task |-> None,
     inputs |-> <<>>]

Idle ==
    [pc |-> "idle", path |-> None, data |-> <<>>, full |-> <<>>, raw |-> FALSE,
     runner |-> <<>>, tool |-> <<>>, output_state |-> <<>>, response |-> <<>>]

Requests == 1..MaxReq

\* the state _serve starts in, for a command line and a disk content
Start(flags, valid, cfg, tools) ==
    /\ args = flags
    /\ disk = [valid |-> valid, config |-> cfg, tools |-> tools]
    /\ phase = "start"
    /\ config = NoConfig
    /\ inputs = <<>>
    /\ serve_tools = flags.serve_tools
    /\ tools_only = flags.tools_only
    /\ runtime = <<>>
    /\ server = <<>>
    /\ routes = <<>>
    /\ started = <<>>
    /\ call = [r \in Requests |-> Idle]

---------------------------------------------------------------------------
(* _serve: configuration, mode, runtime, route table, adapter. *)

\* _get_agent_with_inputs: abort on an invalid path, else load the configuration
LoadAgent ==
    /\ phase = "start"
    /\ \/ /\ ~disk.valid
          /\ phase' = "aborted"
          /\ UNCHANGED <<config, inputs>>
       \/ /\ disk.valid
          /\ config' = disk.config
          /\ inputs' = disk.config.inputs
          /\ phase' = "loaded"
    /\ UNCHANGED <<args, disk, serve_tools, tools_only, runtime, server, routes,
                   started, call>>

\* a plausible slip: the mode follows the flag alone, not the configuration
ToolsOnlyMode_FlagOnly(flag, cfg) == flag

\* the condition of tools-only mode: `and` binds tighter than `or`
ToolsOnlyMode(flag, cfg) ==
    flag \/ (~Truthy(cfg.system_prompt) /\ ~Truthy(cfg.agent) /\ ~Truthy(cfg.task))

\* the mode decision
ResolveMode ==
    /\ phase = "loaded"
    /\ IF ToolsOnlyMode(tools_only, config)
       THEN serve_tools' = TRUE /\ tools_only' = TRUE
       ELSE UNCHANGED <<serve_tools, tools_only>>
    /\ phase' = "moded"
    /\ UNCHANGED <<args, disk, config, inputs, runtime, server, routes, started, call>>

\* Runtime.build: the runtime holds the tools of the agent
RuntimeBuild(tools) == [tools |-> tools]

\* the runtime is built only when tools are served
BuildRuntime ==
    /\ phase = "moded"
    /\ runtime' = IF serve_tools THEN <<RuntimeBuild(disk.tools)>> ELSE <<>>
    /\ phase' = "built"
    /\ UNCHANGED <<args, disk, config, inputs, serve_tools, tools_only, server, routes,
                   started, call>>

AgentRoute(cfg) ==
    [path |-> "/", methods |-> "POST", endpoint |-> "agent", tool |-> NoTool,
     summary |-> cfg.description]

\* a plausible slip: the summary is the tool's name, not its documentation
ToolRoute_NameAsSummary(tool) ==
    [path |-> "/" \o tool.name, methods |-> "POST", endpoint |-> "tool", tool |-> tool,
     summary |-> tool.name]

ToolRoute(tool) ==
    [path |-> "/" \o tool.name, methods |-> "POST", endpoint |-> "tool", tool |-> tool,
     summary |-> tool.doc]

\* a plausible slip: a route for every known tool, registered by the runtime or not
GetRestApiApp_EveryTool(cfg, rt, st, to) ==
    (IF ~to THEN <<AgentRoute(cfg)>> ELSE <<>>)
    \o (IF st /\ rt # <<>>
        THEN LET known == <<[name |-> "t1", doc |-> "first tool"],
                            [name |-> "t2", doc |-> None]>>
             IN [i \in 1..Len(known) |-> ToolRoute(known[i])]
        ELSE <<>>)

\* _get_rest_api_app: the routes added to the application, in order
GetRestApiApp(cfg, rt, st, to) ==
    (IF ~to THEN <<AgentRoute(cfg)>> ELSE <<>>)
    \o (IF st /\ rt # <<>>
        THEN [i \in 1..Len(rt[1].tools) |-> ToolRoute(rt[1].tools[i])]
        ELSE <<>>)

\* the arguments of create_server that decide what the MCP server exposes
CreateServerArgs ==
    [config |-> config, inputs |-> inputs, runtime |-> runtime,
     serve_tools |-> serve_tools, tools_only |-> tools_only]

\* a plausible slip: two independent ifs in place of the if / else chain
StartAdapter_Independent ==
    /\ phase = "built"
    /\ started' = started
                  \o (IF args.mcp THEN <<"stdio">> ELSE <<>>)
                  \o (IF args.mcp_sse THEN <<"sse">> ELSE <<>>)
                  \o (IF ~args.mcp /\ ~args.mcp_sse THEN <<"http">> ELSE <<>>)
    /\ server' = IF args.mcp \/ args.mcp_sse THEN <<CreateServerArgs>> ELSE <<>>
    /\ routes' = IF args.mcp \/ args.mcp_sse THEN <<>>
                 ELSE GetRestApiApp(config, runtime, serve_tools, tools_only)
    /\ phase' = "serving"
    /\ UNCHANGED <<args, disk, config, inputs, serve_tools, tools_only, runtime, call>>

\* the transport: SSE, stdio or plain HTTP
StartAdapter ==
    /\ phase = "built"
    /\ \/ /\ args.mcp \/ args.mcp_sse
          /\ args.mcp_sse
          /\ server' = <<CreateServerArgs>>
          /\ started' = Append(started, "sse")
          /\ UNCHANGED routes
       \/ /\ args.mcp \/ args.mcp_sse
          /\ ~args.mcp_sse
          /\ server' = <<CreateServerArgs>>
          /\ started' = Append(started, "stdio")
          /\ UNCHANGED routes
       \/ /\ ~(args.mcp \/ args.mcp_sse)
          /\ routes' = GetRestApiApp(config, runtime, serve_tools, tools_only)
          /\ started' = Append(started, "http")
          /\ UNCHANGED server
    /\ phase' = "serving"
    /\ UNCHANGED <<args, disk, config, inputs, serve_tools, tools_only, runtime, call>>

\* the adapter returns (the server shuts down, the stream closes) and _serve ends;
\* the shutdown is graceful: requests in flight are answered first
StopServing ==
    /\ phase = "serving"
    /\ \A r \in Requests : call[r].pc \in {"idle", "responded"}
    /\ phase' = "stopped"
    /\ UNCHANGED <<args, disk, config, inputs, serve_tools, tools_only, runtime, server,
                   routes, started, call>>

Startup == LoadAgent \/ ResolveMode \/ BuildRuntime \/ StartAdapter

---------------------------------------------------------------------------
(* The REST application's request handlers. *)

UpperCase == <<"A", "E", "F", "L", "R", "S", "T", "U">>
LowerCase == <<"a", "e", "f", "l", "r", "s", "t", "u">>

\* str.lower(), character by character
LowerChar(c) ==
    IF \E i \in 1..Len(UpperCase) : UpperCase[i] = c
    THEN LowerCase[CHOOSE i \in 1..Len(UpperCase) : UpperCase[i] = c]
    ELSE c

Lower(s) == [i \in 1..Len(s) |-> LowerChar(s[i])]

\* a plausible slip: the parameter is compared as sent, without lower()
RawFlag_CaseSensitive(query) ==
    DictGet(query, "full", <<"f", "a", "l", "s", "e">>) = <<"t", "r", "u", "e">>

\* request.query_params.get("full", "false").lower() == "true"
RawFlag(query) ==
    Lower(DictGet(query, "full", <<"f", "a", "l", "s", "e">>)) = <<"t", "r", "u", "e">>

\* HTTPException(status_code=400, detail=f"input '{input_name}' is required")
MissingInput(input_name) ==
    [status_code |-> 400, shape |-> "detail",
     body |-> "input '" \o input_name \o "' is required"]

\* the loop over input_state.keys(), from the i-th key on: `shared` is the dict the
\* caller passed, `input_state` the dict the loop writes
RECURSIVE ResolveFrom(_, _, _, _)
ResolveFrom(shared, input_state, data, i) ==
    IF i > Len(input_state)
    THEN [raised |-> FALSE, input_state |-> input_state, inputs |-> shared,
          error |-> MissingInput("")]
    ELSE LET input_name == input_state[i][1]
             input_value == DictGet(data, input_name, DictGet(shared, input_name, None))
         IN IF input_value = None
            THEN [raised |-> TRUE, input_state |-> input_state, inputs |-> shared,
                  error |-> MissingInput(input_name)]
            ELSE ResolveFrom(shared, DictSet(input_state, input_name, input_value),
                             data, i + 1)

\* the same loop when input_state is the caller's dict itself, not a copy of it
RECURSIVE ResolveInPlace(_, _, _)
ResolveInPlace(shared, data, i) ==
    IF i > Len(shared)
    THEN [raised |-> FALSE, input_state |-> shared, inputs |-> shared,
          error |-> MissingInput("")]
    ELSE LET input_name == shared[i][1]
             input_value == DictGet(data, input_name, DictGet(shared, input_name, None))
         IN IF input_value = None
            THEN [raised |-> TRUE, input_state |-> shared, inputs |-> shared,
                  error |-> MissingInput(input_name)]
            ELSE ResolveInPlace(DictSet(shared, input_name, input_value), data, i + 1)

\* a plausible slip: input_state = inputs, without copy()
GetInputStateFromRequest_NoCopy(declared, data) == ResolveInPlace(declared, data, 1)

\* the same loop with the default taken before the value the request supplies
RECURSIVE ResolveDefaultFirst(_, _, _, _)
ResolveDefaultFirst(shared, input_state, data, i) ==
    IF i > Len(input_state)
    THEN [raised |-> FALSE, input_state |-> input_state, inputs |-> shared,
          error |-> MissingInput("")]
    ELSE LET input_name == input_state[i][1]
             input_value == DictGet(shared, input_name, DictGet(data, input_name, None))
         IN IF input_value = None
            THEN [raised |-> TRUE, input_state |-> input_state, inputs |-> shared,
                  error |-> MissingInput(input_name)]
            ELSE ResolveDefaultFirst(shared, DictSet(input_state, input_name, input_value),
                                     data, i + 1)

\* a plausible slip: inputs.get(name, data.get(name)), the lookups swapped
GetInputStateFromRequest_DefaultFirst(declared, data) ==
    ResolveDefaultFirst(declared, DictCopy(declared), data, 1)

\* the same loop over the keys of the request, not of the declaration
RECURSIVE ResolveOverData(_, _, _, _)
ResolveOverData(shared, input_state, data, i) ==
    IF i > Len(data)
    THEN ResolveFrom(shared, input_state, data, 1)
    ELSE ResolveOverData(shared, DictSet(input_state, data[i][1], data[i][2]), data, i + 1)

\* a plausible slip: input_state.update(data) before the loop, so that the keys of
\* the request join the declared ones
GetInputStateFromRequest_Update(declared, data) ==
    ResolveOverData(declared, DictCopy(declared), data, 1)

\* the same loop raising at the last missing input, not at the first
RECURSIVE ResolveLastMissing(_, _, _, _, _)
ResolveLastMissing(shared, input_state, data, i, missing) ==
    IF i > Len(input_state)
    THEN [raised |-> missing # "", input_state |-> input_state, inputs |-> shared,
          error |-> MissingInput(missing)]
    ELSE LET input_name == input_state[i][1]
             input_value == DictGet(data, input_name, DictGet(shared, input_name, None))
         IN IF input_value = None
            THEN ResolveLastMissing(shared, input_state, data, i + 1, input_name)
            ELSE ResolveLastMissing(shared, DictSet(input_state, input_name, input_value),
                                    data, i + 1, missing)

\* a plausible slip: the error is raised after the loop, for the last missing input
GetInputStateFromRequest_LastMissing(declared, data) ==
    ResolveLastMissing(declared, DictCopy(declared), data, 1, "")

\* _get_input_state_from_request: what it returns or raises, and the caller's dict
\* after the call
GetInputStateFromRequest(declared, data) ==
    ResolveFrom(declared, DictCopy(declared), data, 1)

\* the text of a dict, for the model's Runner and tools to answer with
RECURSIVE Render(_)
Render(d) ==
    IF d = <<>> THEN ""
    ELSE d[1][1] \o "=" \o d[1][2] \o ";" \o Render(Tail(d))

\* Runner(..., input_state)
Runner(input_state) == [input_state |-> input_state]

\* Runner.run: the output state, a mapping that holds the key "output"
RunnerRun(runner) ==
    DictSet(runner.input_state, "output", "answer(" \o Render(runner.input_state) \o ")")

\* tool(**data)
ToolCall(tool, arguments) == tool.name \o "(" \o Render(arguments) \o ")"

\* the router: the first route registered for the path, 0 when there is none
Match(table, path) ==
    IF \E i \in 1..Len(table) : table[i].path = path
    THEN CHOOSE i \in 1..Len(table) :
            /\ table[i].path = path
            /\ \A j \in 1..(i - 1) : table[j].path # path
    ELSE 0

NotFound == [status_code |-> 404, shape |-> "detail", body |-> "Not Found"]

ServerError == [status_code |-> 500, shape |-> "detail", body |-> "Internal Server Error"]

\* a request reaches the HTTP adapter: the router picks the endpoint, which runs to
\* its first await
Receive(r, req) ==
    /\ phase = "serving"
    /\ started = <<"http">>
    /\ call[r].pc = "idle"
    /\ LET m == Match(routes, req.path)
           arrived == [call[r] EXCEPT !.path = req.path, !.data = req.data,
                                      !.full = req.query]
       IN IF m = 0
          THEN /\ call' = [call EXCEPT ![r] =
                              [arrived EXCEPT !.pc = "responded", !.response = <<NotFound>>]]
               /\ UNCHANGED inputs
          ELSE IF routes[m].endpoint = "agent"
          THEN LET res == GetInputStateFromRequest(inputs, req.data)
                   entered == [arrived EXCEPT !.raw = RawFlag(req.query)]
               IN /\ inputs' = res.inputs
                  /\ call' = [call EXCEPT ![r] =
                       IF res.raised
                       THEN [entered EXCEPT !.pc = "responded", !.response = <<res.error>>]
                       ELSE [entered EXCEPT !.pc = "running",
                                            !.runner = <<Runner(res.input_state)>>]]
          ELSE /\ call' = [call EXCEPT ![r] =
                              [arrived EXCEPT !.pc = "calling", !.tool = <<routes[m].tool>>]]
               /\ UNCHANGED inputs
    /\ UNCHANGED <<args, disk, phase, config, serve_tools, tools_only, runtime, server,
                   routes, started>>

\* the two return statements of the agent endpoint
AgentResponse(raw, output_state) ==
    IF raw
    THEN [status_code |-> 200, shape |-> "map", body |-> output_state]
    ELSE [status_code |-> 200, shape |-> "value",
          body |-> DictGet(output_state, "output", None)]

\* runner.run() returns and the agent endpoint answers
AgentRunReturns(r) ==
    /\ call[r].pc = "running"
    /\ LET output_state == RunnerRun(call[r].runner[1])
       IN call' = [call EXCEPT ![r].pc = "responded",
                               ![r].output_state = <<output_state>>,
                               ![r].response = <<AgentResponse(call[r].raw, output_state)>>]
    /\ UNCHANGED <<args, disk, phase, config, inputs, serve_tools, tools_only, runtime,
                   server, routes, started>>

\* runner.run() raises: the exception leaves the endpoint
AgentRunRaises(r) ==
    /\ call[r].pc = "running"
    /\ call' = [call EXCEPT ![r].pc = "responded", ![r].response = <<ServerError>>]
    /\ UNCHANGED <<args, disk, phase, config, inputs, serve_tools, tools_only, runtime,
                   server, routes, started>>

\* the tool returns and the tool endpoint answers {"result": ...}
ToolReturns(r) ==
    /\ call[r].pc = "calling"
    /\ call' = [call EXCEPT ![r].pc = "responded",
                  ![r].response =
                     <<[status_code |-> 200, shape |-> "map",
                        body |-> << <<"result", ToolCall(call[r].tool[1], call[r].data)>> >>]>>]
    /\ UNCHANGED <<args, disk, phase, config, inputs, serve_tools, tools_only, runtime,
                   server, routes, started>>

\* the tool raises: the exception leaves the endpoint
ToolRaises(r) ==
    /\ call[r].pc = "calling"
    /\ call' = [call EXCEPT ![r].pc = "responded", ![r].response = <<ServerError>>]
    /\ UNCHANGED <<args, disk, phase, config, inputs, serve_tools, tools_only, runtime,
                   server, routes, started>>

---------------------------------------------------------------------------
(* The requests a run may receive. *)

\* the dicts whose i-th key, when present, is keys[i] with a value of values[i]
RECURSIVE Dicts(_, _)
Dicts(keys, values) ==
    IF keys = <<>> THEN {<<>>}
    ELSE LET rest == Dicts(Tail(keys), Tail(values))
         IN rest \cup {<< <<Head(keys), v>> >> \o d : v \in Head(values), d \in rest}

Query(chars) == << <<"full", chars>> >>

NoQuery == <<>>

RichQueries ==
    {NoQuery, Query(<<"t", "r", "u", "e">>), Query(<<"T", "R", "U", "E">>),
     Query(<<"T", "r", "u", "e">>), Query(<<"f", "a", "l", "s", "e">>), Query(<<"1">>)}

\* one request at a time, every payload over the declared names and a foreign key
RichRequests ==
    [path : {"/"}, query : RichQueries,
     data : Dicts(<<"a", "b", "c", "x">>, <<{"v", "w"}, {"v"}, {"v"}, {"v"}>>)]
    \cup [path : {"/t1", "/t2"}, query : {NoQuery}, data : {<<>>}]

\* concurrent requests: distinguishable payloads, both response shapes, a tool that
\* is registered and one that is not
FewRequests ==
    [path : {"/"}, query : {NoQuery, Query(<<"t", "r", "u", "e">>)},
     data : Dicts(<<"a", "b">>, <<{"v", "w"}, {"v"}>>)]
    \cup [path : {"/t1", "/t2"}, query : {NoQuery}, data : {<<>>, << <<"x", "v">> >>}]

Serve(ids, universe) ==
    \E r \in ids :
        \/ \E req \in universe : Receive(r, req)
        \/ AgentRunReturns(r)
        \/ AgentRunRaises(r)
        \/ ToolReturns(r)
        \/ ToolRaises(r)

---------------------------------------------------------------------------
(* The concurrent specification: MaxReq requests in flight together. *)

Init ==
    \E flags \in Flags, valid \in BOOLEAN,
       cfg \in Configurations({None, "be helpful"}, {None}, FewDeclaredInputs) :
        Start(flags, valid, cfg, <<[name |-> "t1", doc |-> "first tool"]>>)

Next == Startup \/ StopServing \/ Serve(Requests, FewRequests)

Spec == Init /\ [][Next]_vars

---------------------------------------------------------------------------
(* The single-request specification: every declaration of at most MaxInputs *)
(* inputs and every payload.                                                *)

InitOne ==
    \E flags \in Flags, valid \in BOOLEAN,
       cfg \in Configurations({None, "be helpful"}, {None}, DeclaredInputs) :
        Start(flags, valid, cfg, <<[name |-> "t1", doc |-> "first tool"]>>)

NextOne == Startup \/ StopServing \/ Serve({1}, RichRequests)

SpecOne == InitOne /\ [][NextOne]_vars

---------------------------------------------------------------------------
(* The startup specification: every command line, every combination of     *)
(* system prompt and directives, every registry of at most MaxTools tools. *)

InitStartup ==
    \E flags \in Flags, valid \in BOOLEAN,
       cfg \in Configurations({None, "", "be helpful"}, {None, "do it"}, FewDeclaredInputs),
       tools \in SeqsUpTo(ToolUniverse, MaxTools) :
        Start(flags, valid, cfg, tools)

NextStartup == Startup \/ StopServing

SpecStartup == InitStartup /\ [][NextStartup]_vars

---------------------------------------------------------------------------
(* What the claims are stated with. *)

\* the declared inputs, as the configuration on disk states them
Declared == disk.config.inputs

\* request r was routed to the agent endpoint
ReachedAgent(r) ==
    /\ call[r].pc # "idle"
    /\ Match(routes, call[r].path) # 0
    /\ routes[Match(routes, call[r].path)].endpoint = "agent"

\* the positions of the required inputs that a payload leaves out
Omitted(data) ==
    {i \in 1..Len(Declared) : Declared[i][2] = None /\ ~DictHas(data, Declared[i][1])}

Min(S) == CHOOSE i \in S : \A j \in S : i <= j

\* the input state a payload resolves to: per declared name, the value supplied,
\* else the default
Resolved(data) ==
    [i \in 1..Len(Declared) |->
        <<Declared[i][1],
          IF DictHas(data, Declared[i][1])
          THEN DictGet(data, Declared[i][1], None)
          ELSE Declared[i][2]>>]

\* the value of `full`, with "false" when the parameter is absent
FullOf(r) == DictGet(call[r].full, "full", <<"f", "a", "l", "s", "e">>)

\* "true" in any mix of upper and lower case
IsTrueAnyCase(chars) ==
    /\ Len(chars) = 4
    /\ chars[1] \in {"t", "T"}
    /\ chars[2] \in {"r", "R"}
    /\ chars[3] \in {"u", "U"}
    /\ chars[4] \in {"e", "E"}

\* request r was answered by the agent endpoint after a run that returned
Completed(r) == call[r].pc = "responded" /\ call[r].output_state # <<>>

OutputOnly(r) ==
    /\ call[r].response[1].status_code = 200
    /\ call[r].response[1].shape = "value"
    /\ call[r].response[1].body = DictGet(call[r].output_state[1], "output", None)

FullMap(r) ==
    /\ call[r].response[1].status_code = 200
    /\ call[r].response[1].shape = "map"
    /\ call[r].response[1].body = call[r].output_state[1]

\* the configuration has no system prompt, no agent directive, no task directive
Bare(cfg) ==
    /\ cfg.system_prompt \in {None, ""}
    /\ cfg.agent \in {None, ""}
    /\ cfg.task \in {None, ""}

HttpServing == phase \in {"serving", "stopped"} /\ started = <<"http">>

---------------------------------------------------------------------------
(* The claims. *)

\* C1: every input state the resolver returns gives each declared name the value
\* the request supplies, and the declared default when the request supplies none.
C1_ResolvedValues ==
    \A r \in Requests :
        call[r].runner # <<>> =>
            \A i \in 1..Len(Declared) :
                LET name == Declared[i][1]
                    state == call[r].runner[1].input_state
                IN /\ DictHas(state, name)
                   /\ DictGet(state, name, None) =
                        IF DictHas(call[r].data, name)
                        THEN DictGet(call[r].data, name, None)
                        ELSE Declared[i][2]

C1_Witness ==
    \E r \in Requests :
        /\ call[r].runner # <<>>
        /\ \E i, j \in 1..Len(Declared) :
            /\ Declared[i][2] = "d"
            /\ ~DictHas(call[r].data, Declared[i][1])
            /\ DictGet(call[r].runner[1].input_state, Declared[i][1], None) = "d"
            /\ Declared[j][2] = "d"
            /\ DictGet(call[r].data, Declared[j][1], None) = "v"
            /\ DictGet(call[r].runner[1].input_state, Declared[j][1], None) = "v"

\* C2, as stated: whenever a required input is omitted, the request is rejected
\* with status 400 and the message that names that very input.
C2_NamesEveryOmitted ==
    \A r \in Requests :
        ReachedAgent(r) =>
            \A i \in Omitted(call[r].data) :
                /\ call[r].pc = "responded"
                /\ call[r].response[1].status_code = 400
                /\ call[r].response[1].body = "input '" \o Declared[i][1] \o "' is required"

\* C2, amended: whenever required inputs are omitted, the request is rejected with
\* status 400 and the message that names the first of them in declaration order,
\* and no Runner is constructed.
C2_NamesFirstOmitted ==
    \A r \in Requests :
        (ReachedAgent(r) /\ Omitted(call[r].data) # {}) =>
            /\ call[r].pc = "responded"
            /\ call[r].runner = <<>>
            /\ call[r].response[1].status_code = 400
            /\ call[r].response[1].shape = "detail"
            /\ call[r].response[1].body =
                 "input '" \o Declared[Min(Omitted(call[r].data))][1] \o "' is required"

C2_Witness ==
    \E r \in Requests :
        /\ ReachedAgent(r)
        /\ Cardinality(Omitted(call[r].data)) = 2
        /\ call[r].data # <<>>
        /\ call[r].response[1].status_code = 400

\* C3: every input state the resolver returns has exactly the declared keys, keys
\* of the payload that are not declared are absent from it, and no value is None.
C3_DeclaredKeysOnly ==
    \A r \in Requests :
        call[r].runner # <<>> =>
            LET state == call[r].runner[1].input_state
            IN /\ Len(state) = Len(Declared)
               /\ \A i \in 1..Len(state) : state[i][1] = Declared[i][1]
               /\ \A i \in 1..Len(state) : state[i][2] # None
               /\ \A k \in DictKeys(call[r].data) \ DictKeys(Declared) : ~DictHas(state, k)

C3_Witness ==
    \E r \in Requests :
        /\ call[r].runner # <<>>
        /\ DictHas(call[r].data, "x")
        /\ Len(Declared) = 2
        /\ \E i \in 1..Len(Declared) : Declared[i][2] = None

\* C4: with no system prompt and no directive, the mode is tools-only whatever the
\* flags: tools are served, the agent is not, no route "/" is registered, and an
\* MCP server is created tools-only.
C4_BareIsToolsOnly ==
    (Bare(disk.config) /\ phase \in {"moded", "built", "serving", "stopped"}) =>
        /\ tools_only /\ serve_tools
        /\ phase \in {"serving", "stopped"} =>
            /\ \A i \in 1..Len(routes) : routes[i].path # "/" /\ routes[i].endpoint # "agent"
            /\ runtime # <<>>
            /\ server # <<>> => server[1].tools_only /\ server[1].serve_tools
            /\ started = <<"http">> => Len(routes) = Len(disk.tools)

C4_Witness ==
    /\ Bare(disk.config)
    /\ ~args.tools_only /\ ~args.serve_tools
    /\ HttpServing
    /\ Len(routes) = 2

\* C5, as stated: with serve_tools set and a system prompt, the route table holds
\* the agent route and one route per registered tool, "/" + name, whose summary is
\* the tool's documentation.
C5_AgentAndTools ==
    (HttpServing /\ args.serve_tools /\ Truthy(config.system_prompt)) =>
        /\ Len(routes) = 1 + Len(disk.tools)
        /\ routes[1].path = "/" /\ routes[1].endpoint = "agent"
        /\ \A i \in 1..Len(disk.tools) :
            /\ routes[i + 1].path = "/" \o disk.tools[i].name
            /\ routes[i + 1].summary = disk.tools[i].doc

\* C5, amended: with serve_tools set, tools_only not set and a system prompt, the
\* route table of the REST application holds the agent route and one route per
\* registered tool, "/" + name, whose summary is the tool's documentation.
C5_AgentAndToolsUnlessToolsOnly ==
    (HttpServing /\ args.serve_tools /\ ~args.tools_only /\ Truthy(config.system_prompt)) =>
        /\ Len(routes) = 1 + Len(disk.tools)
        /\ routes[1].path = "/" /\ routes[1].endpoint = "agent"
        /\ \A i \in 1..Len(disk.tools) :
            /\ routes[i + 1].path = "/" \o disk.tools[i].name
            /\ routes[i + 1].endpoint = "tool"
            /\ routes[i + 1].tool = disk.tools[i]
            /\ routes[i + 1].summary = disk.tools[i].doc

C5_Witness ==
    /\ HttpServing
    /\ args.serve_tools /\ ~args.tools_only /\ Truthy(config.system_prompt)
    /\ Len(routes) = 3
    /\ routes[2].summary = "first tool"
    /\ routes[3].path = "/t2"

\* C6, as stated: a completed agent invocation answers with the whole output state
\* when full is exactly "true", and with the value at "output" otherwise.
C6_ShapeByExactTrue ==
    \A r \in Requests :
        Completed(r) =>
            IF FullOf(r) = <<"t", "r", "u", "e">> THEN FullMap(r) ELSE OutputOnly(r)

\* C6, amended: a completed agent invocation answers with the whole output state
\* when full is "true" in any mix of upper and lower case, and with the value at
\* "output" otherwise.
C6_ShapeByTrueAnyCase ==
    \A r \in Requests :
        Completed(r) =>
            IF IsTrueAnyCase(FullOf(r)) THEN FullMap(r) ELSE OutputOnly(r)

C6_Witness ==
    \E r \in Requests :
        /\ Completed(r)
        /\ FullOf(r) = <<"T", "r", "u", "e">>
        /\ FullMap(r)
        /\ Len(call[r].output_state[1]) = 3

\* C7: whatever the other requests did, the Runner of a request holds the input
\* state resolved from that request's payload and the declared defaults, and its
\* response is built from the output state of that Runner.
C7_Isolation ==
    \A r \in Requests :
        /\ call[r].runner # <<>> =>
            call[r].runner[1].input_state = Resolved(call[r].data)
        /\ Completed(r) =>
            /\ call[r].output_state[1] =
                 Append(Resolved(call[r].data),
                        <<"output", "answer(" \o Render(Resolved(call[r].data)) \o ")">>)
            /\ IF call[r].raw THEN FullMap(r) ELSE OutputOnly(r)

C7_Witness ==
    \E r, q \in Requests :
        /\ r # q
        /\ Completed(r) /\ OutputOnly(r)
        /\ call[q].pc = "running"
        /\ DictGet(call[r].data, "a", None) = "v"
        /\ ~DictHas(call[q].data, "a")
        /\ DictGet(call[q].runner[1].input_state, "a", None) = "d"

\* C8: at most one protocol adapter is ever started, and once _serve is serving
\* exactly one of stdio, sse and http has been.
C8_OneAdapter ==
    /\ Len(started) <= 1
    /\ phase \in {"serving", "stopped"} =>
        /\ Len(started) = 1
        /\ started[1] \in {"stdio", "sse", "http"}
    /\ started # <<"http">> => routes = <<>>
    /\ started = <<"http">> => server = <<>>

C8_Witness ==
    /\ phase = "stopped"
    /\ args.mcp /\ args.mcp_sse
    /\ started = <<"sse">>

\* C9: a request for a tool name the runtime does not register is answered 404,
\* and neither resolves inputs, nor constructs a Runner, nor calls a tool.
C9_UnknownToolNotFound ==
    \A r \in Requests :
        (/\ call[r].pc # "idle"
         /\ call[r].path # "/"
         /\ \A i \in 1..Len(disk.tools) : call[r].path # "/" \o disk.tools[i].name) =>
            /\ call[r].pc = "responded"
            /\ call[r].response[1].status_code = 404
            /\ call[r].runner = <<>>
            /\ call[r].tool = <<>>
            /\ call[r].output_state = <<>>

C9_Witness ==
    \E r \in Requests :
        /\ call[r].path = "/t2"
        /\ call[r].pc = "responded"
        /\ call[r].response[1].status_code = 404
        /\ \E i \in 1..Len(routes) : routes[i].path = "/t1"
        /\ \E i \in 1..Len(routes) : routes[i].path = "/"

\* C10: while serving, no step changes the declared inputs, the configuration or
\* the route table, whatever the requests and whether they succeed or fail.
C10_ReadOnly ==
    [][phase = "serving" => (inputs' = inputs /\ config' = config /\ routes' = routes)]_vars

C10_Witness ==
    \E r, q \in Requests :
        /\ call[r].pc = "responded" /\ call[r].response[1].status_code = 400
        /\ Completed(q)
        /\ DictGet(call[q].data, "a", None) = "w"
        /\ inputs = Declared

====
